---- MODULE Spec2Model ----
\* Model of the window-funnel aggregate state
\* (src/common/functions/src/aggregates/aggregate_window_funnel.rs):
\* AggregateWindowFunnelState (events_list, sorted) with add / merge / sort /
\* serialize / deserialize, and AggregateWindowFunnelFunction with
\* merge_result and get_event_level.
EXTENDS Integers, Sequences, FiniteSets, Bags, TLC

\* ------------------------------------------------------------------ bounds
\* longest events_list that add may still extend
MaxLen == 2
\* longest input buffer drawn for the merge-order scenarios
MaxLawLen == 2
\* longest input buffer drawn for the level scenarios
MaxLevelLen == 3
\* most rows in one batch handed to accumulate / accumulate_keys
MaxRows == 2
\* most columns in an argument list handed to the constructor
MaxArgs == 3

\* ------------------------------------------------------- program constants
\* window: 1024 in try_create
window == 1024

\* timestamps fed to the running aggregate (T::Native is an unsigned integer)
Timestamps == {0, window + 1}
\* timestamps of the level scenarios, chosen around the window: deltas of
\* 1, window - 1, window and window + 1
LevelTimestamps == {0, 1, window, window + 1}
\* timestamps of the merge-order scenarios
LawTimestamps == {0, window + 1}
\* arguments.len() handed to try_create
ArgCounts == {2, 3}
\* arguments.len() handed to try_create in the level scenarios
LevelArgCounts == {2, 3, 4}
\* arguments.len() handed to try_create in the accumulate scenarios: two
\* steps, and one step more than a u8 stage can number
AccArgCounts == {3, 257}
\* a null timestamp (None) of the timestamp column
NullTimestamp == 0 - 1
\* timestamps of the rows handed to accumulate
AccTimestamps == {NullTimestamp, 0, window + 1}
\* offsets of the state behind a handle handed to accumulate_keys
Offsets == {0, 1}
\* column types an argument list is drawn from
DataTypes == {"UInt8", "UInt16", "UInt32", "UInt64", "Int64", "Boolean"}
\* state places (StateAddr) of the running aggregate
Places == {1, 2}
\* places of the merge-order scenarios: A, B, C and their copies
LawPlaces == 1..10

VARIABLES
    arguments,    \* AggregateWindowFunnelFunction.arguments: the column types
    call,         \* the inputs of the last accumulate / accumulate_keys call
    event_size,   \* AggregateWindowFunnelFunction.event_size
    events_list,  \* place -> AggregateWindowFunnelState.events_list
    sorted,       \* place -> AggregateWindowFunnelState.sorted
    wire,         \* the bytes written by serialize, read by deserialize
    sent,         \* the state whose bytes are on the wire
    op,           \* the last operation: its name, places, outcome, return value
    pc            \* merge-order scenario: the step it is at, the trees that panicked

vars == <<arguments, call, event_size, events_list, sorted, wire, sent, op, pc>>

\* ---------------------------------------------------------------- helpers
\* (i + 1) as u8 in accumulate
AsU8(n) == n % 256

\* the stages accumulate hands to add: (i + 1) as u8 for i in 0..event_size
Stages(n) == {AsU8(i + 1) : i \in 0..(n - 1)}

\* the cmp closure of merge and sort: timestamp first, then event
cmp(a, b) ==
    IF a[1] < b[1] THEN "Less"
    ELSE IF a[1] > b[1] THEN "Greater"
    ELSE IF a[2] < b[2] THEN "Less"
    ELSE IF a[2] > b[2] THEN "Greater"
    ELSE "Equal"

RECURSIVE InsertSorted(_, _)
InsertSorted(s, x) ==
    IF s = <<>> THEN <<x>>
    ELSE IF cmp(x, Head(s)) = "Less" THEN <<x>> \o s
    ELSE <<Head(s)>> \o InsertSorted(Tail(s), x)

\* Vec::sort_by(cmp): a stable sort
RECURSIVE sort_by(_)
sort_by(s) ==
    IF s = <<>> THEN <<>>
    ELSE InsertSorted(sort_by(SubSeq(s, 1, Len(s) - 1)), s[Len(s)])

\* ------------------------------------------- AggregateWindowFunnelState
\* new()
state_new == [events_list |-> <<>>, sorted |-> TRUE]

\* add(&mut self, timestamp, event)
\* state_add with a strict comparison of the event on equal timestamps
state_add_strict(self, timestamp, event) ==
    LET last == self.events_list[Len(self.events_list)]
        flag == IF self.sorted /\ self.events_list # <<>>
                THEN IF last[1] = timestamp
                     THEN last[2] < event
                     ELSE last[1] <= timestamp
                ELSE self.sorted
    IN [events_list |-> Append(self.events_list, <<timestamp, event>>),
        sorted |-> flag]

state_add(self, timestamp, event) ==
    LET last == self.events_list[Len(self.events_list)]
        flag == IF self.sorted /\ self.events_list # <<>>
                THEN IF last[1] = timestamp
                     THEN last[2] <= event
                     ELSE last[1] <= timestamp
                ELSE self.sorted
    IN [events_list |-> Append(self.events_list, <<timestamp, event>>),
        sorted |-> flag]

\* state_sort that records the order it established
state_sort_sets_flag(self) ==
    [events_list |-> IF ~self.sorted THEN sort_by(self.events_list)
                     ELSE self.events_list,
     sorted |-> TRUE]

\* state_sort with the test of the flag inverted
state_sort_inverted(self) ==
    [events_list |-> IF self.sorted THEN sort_by(self.events_list)
                     ELSE self.events_list,
     sorted |-> self.sorted]

\* whether a sort() call on the state runs the full sort_by (the test of
\* the flag in sort)
sort_runs(self) == ~self.sorted

\* sort(&mut self): sorts when the flag is false; the flag is not written
state_sort(self) ==
    [events_list |-> IF ~self.sorted THEN sort_by(self.events_list)
                     ELSE self.events_list,
     sorted |-> self.sorted]

\* the while loop of merge: i, j, k and merged; "panic" when other[i] is
\* out of bounds
RECURSIVE merge_loop(_, _, _, _, _, _)
merge_loop(se, oe, i, j, k, merged) ==
    IF i < Len(se) /\ j < Len(oe)
    THEN IF cmp(se[i + 1], oe[j + 1]) = "Less"
         THEN merge_loop(se, oe, i + 1, j, k + 1, Append(merged, se[i + 1]))
         ELSE IF i >= Len(oe)
              THEN [panic |-> TRUE, i |-> i, j |-> j, k |-> k, merged |-> merged]
              ELSE merge_loop(se, oe, i, j + 1, k + 1, Append(merged, oe[i + 1]))
    ELSE [panic |-> FALSE, i |-> i, j |-> j, k |-> k, merged |-> merged]

\* merged[k..].copy_from_slice(&src[i..]): panics when i is past the end of
\* src or when the two slices differ in length
copy_from_slice(merged, k, src, i) ==
    IF k > Len(merged) \/ i > Len(src) THEN [panic |-> TRUE, merged |-> merged]
    ELSE IF Len(merged) - k # Len(src) - i THEN [panic |-> TRUE, merged |-> merged]
    ELSE [panic |-> FALSE,
          merged |-> SubSeq(merged, 1, k) \o SubSeq(src, i + 1, Len(src))]

\* merge after its early return: sort both, the while loop, the two tail
\* copies, the assignment of merged
merge_body(self, other) ==
    LET l1 == Len(self.events_list)
        l2 == Len(other.events_list)
        s1 == state_sort(self)
        o1 == state_sort(other)
        lp == merge_loop(s1.events_list, o1.events_list, 0, 0, 0, <<>>)
        t1 == IF lp.i < l1
              THEN copy_from_slice(lp.merged, lp.k, s1.events_list, lp.i)
              ELSE [panic |-> FALSE, merged |-> lp.merged]
        t2 == IF lp.j < l2
              THEN copy_from_slice(t1.merged, lp.k, o1.events_list, lp.i)
              ELSE [panic |-> FALSE, merged |-> t1.merged]
    IN IF lp.panic \/ t1.panic \/ t2.panic
       THEN [self |-> s1, other |-> o1, panic |-> TRUE]
       ELSE [self |-> [events_list |-> t2.merged, sorted |-> s1.sorted],
             other |-> o1, panic |-> FALSE]

\* a merge whose early return tests self instead of other
state_merge_self_test(self, other) ==
    IF self.events_list = <<>>
    THEN [self |-> self, other |-> other, panic |-> FALSE]
    ELSE merge_body(self, other)

\* merge(&mut self, other): the states of self and other afterwards, and
\* whether the call panicked
state_merge(self, other) ==
    IF other.events_list = <<>>
    THEN [self |-> self, other |-> other, panic |-> FALSE]
    ELSE merge_body(self, other)

\* -------------------------------------------------------------- wire bytes
\* bytes per timestamp: T::Native of the dispatched unsigned type (u16 here)
TimestampBytes == 2

\* bool::serialize_to_buf: one byte
ser_bool(b) == <<IF b THEN 1 ELSE 0>>

\* write_uvarint: 7 bits per byte, low group first, high bit = "more follows"
RECURSIVE write_uvarint(_)
write_uvarint(n) ==
    IF n < 128 THEN <<n>>
    ELSE <<(n % 128) + 128>> \o write_uvarint(n \div 128)

\* T::serialize_to_buf: TimestampBytes bytes, low byte first
RECURSIVE ser_timestamp_w(_, _)
ser_timestamp_w(t, w) ==
    IF w = 0 THEN <<>> ELSE <<t % 256>> \o ser_timestamp_w(t \div 256, w - 1)

ser_timestamp(t) == ser_timestamp_w(t, TimestampBytes)

\* u8::serialize_to_buf: one byte
ser_u8(e) == <<e % 256>>

\* bool::deserialize: one byte, an error at the end of the input
de_bool(reader) ==
    IF reader = <<>> THEN [ok |-> FALSE, val |-> FALSE, rest |-> reader]
    ELSE [ok |-> TRUE, val |-> (Head(reader) # 0), rest |-> Tail(reader)]

\* read_uvarint: an error when the input ends inside the number
RECURSIVE read_uvarint(_)
read_uvarint(reader) ==
    IF reader = <<>> THEN [ok |-> FALSE, val |-> 0, rest |-> reader]
    ELSE IF Head(reader) < 128
         THEN [ok |-> TRUE, val |-> Head(reader), rest |-> Tail(reader)]
         ELSE LET more == read_uvarint(Tail(reader))
              IN [ok |-> more.ok,
                  val |-> (Head(reader) - 128) + 128 * more.val,
                  rest |-> more.rest]

RECURSIVE de_timestamp_w(_, _)
de_timestamp_w(bytes, w) ==
    IF w = 0 THEN 0 ELSE Head(bytes) + 256 * de_timestamp_w(Tail(bytes), w - 1)

\* T::deserialize: TimestampBytes bytes, an error when fewer are left
de_timestamp(reader) ==
    IF Len(reader) < TimestampBytes
    THEN [ok |-> FALSE, val |-> 0, rest |-> reader]
    ELSE [ok |-> TRUE,
          val |-> de_timestamp_w(reader, TimestampBytes),
          rest |-> SubSeq(reader, TimestampBytes + 1, Len(reader))]

\* u8::deserialize: one byte, an error at the end of the input
de_u8(reader) ==
    IF reader = <<>> THEN [ok |-> FALSE, val |-> 0, rest |-> reader]
    ELSE [ok |-> TRUE, val |-> Head(reader), rest |-> Tail(reader)]

\* the for loop of serialize
RECURSIVE ser_events(_)
ser_events(es) ==
    IF es = <<>> THEN <<>>
    ELSE ser_timestamp(Head(es)[1]) \o ser_u8(Head(es)[2]) \o ser_events(Tail(es))

\* a serialize that writes the count before the flag
state_serialize_count_first(self) ==
    write_uvarint(Len(self.events_list)) \o ser_bool(self.sorted)
        \o ser_events(self.events_list)

\* serialize(&self, writer): the bytes appended to the writer
state_serialize(self) ==
    ser_bool(self.sorted) \o write_uvarint(Len(self.events_list))
        \o ser_events(self.events_list)

\* the for loop of deserialize: reads size events, stops at the first error
RECURSIVE de_events(_, _, _)
de_events(reader, size, acc) ==
    IF size = 0 THEN [ok |-> TRUE, events_list |-> acc, rest |-> reader]
    ELSE LET ts == de_timestamp(reader)
             ev == de_u8(ts.rest)
         IN IF ~ts.ok THEN [ok |-> FALSE, events_list |-> acc, rest |-> ts.rest]
            ELSE IF ~ev.ok THEN [ok |-> FALSE, events_list |-> acc, rest |-> ev.rest]
            ELSE de_events(ev.rest, size - 1, Append(acc, <<ts.val, ev.val>>))

\* deserialize(&mut self, reader): self afterwards, the reader's rest, Ok or Err
state_deserialize(self, reader) ==
    LET flag == de_bool(reader)
        size == read_uvarint(flag.rest)
        evs  == de_events(size.rest, size.val, <<>>)
    IN IF ~flag.ok
       THEN [self |-> self, rest |-> flag.rest, ok |-> FALSE]
       ELSE IF ~size.ok
       THEN [self |-> [events_list |-> self.events_list, sorted |-> flag.val],
             rest |-> size.rest, ok |-> FALSE]
       ELSE [self |-> [events_list |-> evs.events_list, sorted |-> flag.val],
             rest |-> evs.rest, ok |-> evs.ok]

\* ------------------------------------------ AggregateWindowFunnelFunction
\* a try_create that counts the timestamp column as a step
try_create_all_columns(arguments_len) == arguments_len

\* try_create: event_size = arguments.len() - 1
try_create(arguments_len) == arguments_len - 1

\* assert_unary_arguments(display_name, arguments.len()): Ok unless there
\* are fewer than two input columns
assert_unary_arguments(arguments_len) == arguments_len >= 2

\* dispatch_unsigned_numeric_types: the types the creator macro is tried for
UnsignedTypes == {"UInt8", "UInt16", "UInt32", "UInt64"}

\* try_create_aggregate_WindowFunnel_function(display_name, arguments):
\* Ok with the event_size of the function created, or Err
try_create_aggregate_WindowFunnel_function(args) ==
    IF ~assert_unary_arguments(Len(args))
    THEN [ok |-> FALSE, event_size |-> 0]
    ELSE IF args[1] \in UnsignedTypes
    THEN [ok |-> TRUE, event_size |-> try_create(Len(args))]
    ELSE [ok |-> FALSE, event_size |-> 0]

\* the for loop of get_event_level over the sorted events: the locals
\* events_timestamp and first_event it leaves behind.  event - 1 underflows
\* only for event = 0, a stage that accumulate produces only when
\* event_size > 255; the argument counts drawn here keep event_size below
\* that, so the underflow branch is not reached.
RECURSIVE level_loop(_, _, _)
level_loop(es, events_timestamp, first_event) ==
    IF es = <<>>
    THEN [panic |-> FALSE, events_timestamp |-> events_timestamp,
          first_event |-> first_event]
    ELSE LET timestamp == Head(es)[1]
             event_idx == Head(es)[2] - 1
         IN IF event_idx = 0
            THEN level_loop(Tail(es), Append(events_timestamp, <<timestamp>>), TRUE)
            ELSE IF event_idx < 0 \/ event_idx - 1 >= Len(events_timestamp)
            THEN [panic |-> TRUE, events_timestamp |-> events_timestamp,
                  first_event |-> first_event]
            ELSE level_loop(Tail(es), events_timestamp, first_event)

\* a get_event_level whose emptiness test is inverted
get_event_level_of_inverted(self, n) ==
    IF self.events_list # <<>> THEN [self |-> self, panic |-> FALSE, ret |-> 0]
    ELSE IF n = 1 THEN [self |-> self, panic |-> FALSE, ret |-> 1]
    ELSE LET s1 == state_sort(self)
             lp == level_loop(s1.events_list, [i \in 1..n |-> <<>>], FALSE)
         IN IF lp.panic THEN [self |-> s1, panic |-> TRUE, ret |-> -1]
            ELSE [self |-> s1, panic |-> FALSE, ret |-> 4]

\* a get_event_level without the event_size == 1 early return
get_event_level_of_no_shortcut(self, n) ==
    IF self.events_list = <<>> THEN [self |-> self, panic |-> FALSE, ret |-> 0]
    ELSE LET s1 == state_sort(self)
             lp == level_loop(s1.events_list, [i \in 1..n |-> <<>>], FALSE)
         IN IF lp.panic THEN [self |-> s1, panic |-> TRUE, ret |-> -1]
            ELSE [self |-> s1, panic |-> FALSE, ret |-> 4]

\* get_event_level(&mut self, place): the state afterwards and the level
\* returned (ret = -1 when the call panicked)
get_event_level_of(self, n) ==
    IF self.events_list = <<>> THEN [self |-> self, panic |-> FALSE, ret |-> 0]
    ELSE IF n = 1 THEN [self |-> self, panic |-> FALSE, ret |-> 1]
    ELSE LET s1 == state_sort(self)
             lp == level_loop(s1.events_list, [i \in 1..n |-> <<>>], FALSE)
         IN IF lp.panic THEN [self |-> s1, panic |-> TRUE, ret |-> -1]
            ELSE [self |-> s1, panic |-> FALSE, ret |-> 4]

\* the elements of a finite set of numbers in ascending order
RECURSIVE Ascending(_)
Ascending(S) ==
    IF S = {} THEN <<>>
    ELSE LET m == CHOOSE x \in S : \A y \in S : x <= y
         IN <<m>> \o Ascending(S \ {m})

\* the i of 0..event_size, in the order of the inner for loop, for which
\* darrays[i].value(row) is true: fired holds the numbers i + 1 of the
\* indicator columns that are true on the row
TrueIndicators(fired, n) == Ascending({i \in 0..(n - 1) : (i + 1) \in fired})

\* the inner for loop of accumulate for one row, over the i whose indicator
\* is true: state.add(timestamp, (i + 1) as u8)
RECURSIVE accumulate_stages(_, _, _)
accumulate_stages(state, timestamp, is) ==
    IF is = <<>> THEN state
    ELSE accumulate_stages(state_add(state, timestamp, AsU8(Head(is) + 1)),
                           timestamp, Tail(is))

\* a row with a non-null timestamp: the for loop over the stages
accumulate_row(state, row, n) ==
    IF row.timestamp # NullTimestamp
    THEN accumulate_stages(state, row.timestamp, TrueIndicators(row.fired, n))
    ELSE state

\* the for loop of accumulate over the rows of the timestamp column
RECURSIVE accumulate_rows(_, _, _)
accumulate_rows(state, rows, n) ==
    IF rows = <<>> THEN state
    ELSE accumulate_rows(accumulate_row(state, Head(rows), n), Tail(rows), n)

\* an accumulate_keys that looks the state up once, behind the first handle
accumulate_keys_rows_first_place(mem, rows, places, offset, n) ==
    IF rows = <<>> \/ places = <<>> THEN mem
    ELSE LET addr == Head(places) + offset
             zipped == IF Len(rows) <= Len(places) THEN Len(rows) ELSE Len(places)
         IN [mem EXCEPT ![addr] =
                 accumulate_rows(mem[addr], SubSeq(rows, 1, zipped), n)]

\* the for loop of accumulate_keys over the rows zipped with places: mem
\* maps a place to the state behind it, a row goes to place.next(offset)
RECURSIVE accumulate_keys_rows(_, _, _, _, _)
accumulate_keys_rows(mem, rows, places, offset, n) ==
    IF rows = <<>> \/ places = <<>> THEN mem
    ELSE LET addr == Head(places) + offset
         IN accumulate_keys_rows(
                IF Head(rows).timestamp # NullTimestamp
                THEN [mem EXCEPT ![addr] = accumulate_row(mem[addr], Head(rows), n)]
                ELSE mem,
                Tail(rows), Tail(places), offset, n)

\* ------------------------------------------------------------- operations
State(p) == [events_list |-> events_list[p], sorted |-> sorted[p]]

Op(name, dst, src, outcome, ret) ==
    [name |-> name, dst |-> dst, src |-> src, outcome |-> outcome, ret |-> ret]

NoState == [events_list |-> <<>>, sorted |-> TRUE]

\* an argument list of n columns: an unsigned timestamp column, then the
\* boolean indicator columns
Columns(n) == [i \in 1..n |-> IF i = 1 THEN "UInt16" ELSE "Boolean"]

\* no accumulate call was made yet
NoCall == [arrays |-> <<>>, places |-> <<>>, offset |-> 0]

\* no operation has panicked or returned Err: the query is still running
Running == op.outcome = "ok"

\* init_state: every place holds new()
Init ==
    /\ arguments \in {Columns(n) : n \in ArgCounts}
    /\ event_size = try_create(Len(arguments))
    /\ call = NoCall
    /\ events_list = [p \in Places |-> state_new.events_list]
    /\ sorted = [p \in Places |-> state_new.sorted]
    /\ wire = <<>>
    /\ sent = NoState
    /\ op = Op("init_state", 0, 0, "ok", -1)
    /\ pc = [at |-> "run", panicked |-> {}]

\* state.add(timestamp, event) on the state at place
add(place, timestamp, event) ==
    /\ wire = <<>>
    /\ Len(events_list[place]) < MaxLen
    /\ LET s == state_add(State(place), timestamp, event)
       IN /\ events_list' = [events_list EXCEPT ![place] = s.events_list]
          /\ sorted' = [sorted EXCEPT ![place] = s.sorted]
    /\ op' = Op("add", place, 0, "ok", -1)
    /\ UNCHANGED <<arguments, call, event_size, wire, sent>>

\* state.sort() on the state at place
sort(place) ==
    /\ wire = <<>>
    /\ LET s == state_sort(State(place))
       IN /\ events_list' = [events_list EXCEPT ![place] = s.events_list]
          /\ sorted' = [sorted EXCEPT ![place] = s.sorted]
    /\ op' = Op("sort", place, 0, "ok", -1)
    /\ UNCHANGED <<arguments, call, event_size, wire, sent>>

\* AggregateFunction::merge(place, rhs)
merge(place, rhs) ==
    /\ wire = <<>>
    /\ LET m == state_merge(State(place), State(rhs))
       IN /\ events_list' = [events_list EXCEPT ![place] = m.self.events_list,
                                                ![rhs] = m.other.events_list]
          /\ sorted' = [sorted EXCEPT ![place] = m.self.sorted,
                                      ![rhs] = m.other.sorted]
          /\ op' = Op("merge", place, rhs, IF m.panic THEN "panic" ELSE "ok", -1)
    /\ UNCHANGED <<arguments, call, event_size, wire, sent>>

\* AggregateFunction::serialize(place, writer) into an empty writer
serialize(place) ==
    /\ wire = <<>>
    /\ wire' = state_serialize(State(place))
    /\ sent' = State(place)
    /\ op' = Op("serialize", place, 0, "ok", -1)
    /\ UNCHANGED <<arguments, call, event_size, events_list, sorted>>

\* AggregateFunction::deserialize(place, reader) of the bytes on the wire
deserialize(place) ==
    /\ LET d == state_deserialize(State(place), wire)
       IN /\ events_list' = [events_list EXCEPT ![place] = d.self.events_list]
          /\ sorted' = [sorted EXCEPT ![place] = d.self.sorted]
          /\ wire' = d.rest
          /\ op' = Op("deserialize", place, 0, IF d.ok THEN "ok" ELSE "err", -1)
    /\ sent' = NoState
    /\ UNCHANGED <<arguments, call, event_size>>

\* AggregateFunction::merge_result(place): state.sort(), then todo!()
merge_result(place) ==
    /\ wire = <<>>
    /\ LET s == state_sort(State(place))
       IN /\ events_list' = [events_list EXCEPT ![place] = s.events_list]
          /\ sorted' = [sorted EXCEPT ![place] = s.sorted]
    /\ op' = Op("merge_result", place, 0, "panic", -1)
    /\ UNCHANGED <<arguments, call, event_size, wire, sent>>

\* get_event_level(place)
get_event_level(place) ==
    /\ wire = <<>>
    /\ LET g == get_event_level_of(State(place), event_size)
       IN /\ events_list' = [events_list EXCEPT ![place] = g.self.events_list]
          /\ sorted' = [sorted EXCEPT ![place] = g.self.sorted]
          /\ op' = Op("get_event_level", place, 0,
                      IF g.panic THEN "panic" ELSE "ok", g.ret)
    /\ UNCHANGED <<arguments, call, event_size, wire, sent>>

\* AggregateFunction::accumulate(place, arrays, input_rows)
accumulate(place, arrays) ==
    /\ wire = <<>>
    /\ LET s == accumulate_rows(State(place), arrays, event_size)
       IN /\ events_list' = [events_list EXCEPT ![place] = s.events_list]
          /\ sorted' = [sorted EXCEPT ![place] = s.sorted]
    /\ call' = [arrays |-> arrays, places |-> <<>>, offset |-> 0]
    /\ op' = Op("accumulate", place, 0, "ok", -1)
    /\ UNCHANGED <<arguments, event_size, wire, sent>>

\* AggregateFunction::accumulate_keys(places, offset, arrays, input_rows)
accumulate_keys(places, offset, arrays) ==
    /\ wire = <<>>
    /\ LET mem == accumulate_keys_rows([p \in DOMAIN events_list |-> State(p)],
                                       arrays, places, offset, event_size)
       IN /\ events_list' = [p \in DOMAIN events_list |-> mem[p].events_list]
          /\ sorted' = [p \in DOMAIN sorted |-> mem[p].sorted]
    /\ call' = [arrays |-> arrays, places |-> places, offset |-> offset]
    /\ op' = Op("accumulate_keys", 0, 0, "ok", -1)
    /\ UNCHANGED <<arguments, event_size, wire, sent>>

\* The operations of the running aggregate.  They stop once an operation
\* has panicked or returned Err, and the bytes of a serialized state are
\* deserialized before anything else runs (wire # <<>> enables deserialize
\* alone).
DoAdd ==
    /\ Running
    /\ \E p \in Places, t \in Timestamps, e \in Stages(event_size) : add(p, t, e)
    /\ UNCHANGED pc

DoSort ==
    /\ Running
    /\ \E p \in Places : sort(p)
    /\ UNCHANGED pc

DoMerge ==
    /\ Running
    /\ \E p \in Places : \E q \in Places \ {p} : merge(p, q)
    /\ UNCHANGED pc

DoSerialize ==
    /\ Running
    /\ \E p \in Places : serialize(p)
    /\ UNCHANGED pc

DoDeserialize ==
    /\ Running
    /\ wire # <<>>
    /\ \E p \in Places : deserialize(p)
    /\ UNCHANGED pc

DoMergeResult ==
    /\ Running
    /\ \E p \in Places : merge_result(p)
    /\ UNCHANGED pc

DoGetEventLevel ==
    /\ Running
    /\ \E p \in Places : get_event_level(p)
    /\ UNCHANGED pc

Next ==
    \/ DoAdd
    \/ DoSort
    \/ DoMerge
    \/ DoSerialize
    \/ DoDeserialize
    \/ DoMergeResult
    \/ DoGetEventLevel

Spec == Init /\ [][Next]_vars

\* ------------------------------------------------- scenario specifications
\* ascending (timestamp, event) order
IsSorted(es) ==
    \A i \in 1..(Len(es) - 1) : cmp(es[i], es[i + 1]) # "Greater"

BoundedSeq(S, n) == UNION {[1..k -> S] : k \in 0..n}

\* the states add and sort can build from new(): the flag is true only
\* over an ascending events_list, and false only once an out-of-order event
\* was added (sort leaves the flag false)
Buffers(ts, n, maxLen) ==
    {b \in [events_list : BoundedSeq(ts \X Stages(n), maxLen), sorted : BOOLEAN] :
        /\ b.sorted => IsSorted(b.events_list)
        /\ ~b.sorted => Len(b.events_list) >= 2}

\* merge applied to drawn states A, B, C in two tree shapes and two orders:
\*   places 1, 2, 3 hold A, B, C: merge(1, 2) then merge(1, 3)
\*   places 4, 5, 6 hold A, B, C: merge(5, 6) then merge(4, 5)
\*   places 7, 8 hold A, B: merge(7, 8);  places 9, 10 hold A, B: merge(10, 9)
LawInit ==
    /\ arguments \in {Columns(n) : n \in ArgCounts}
    /\ event_size = try_create(Len(arguments))
    /\ call = NoCall
    /\ \E A \in Buffers(LawTimestamps, event_size, MaxLawLen) :
       \E B \in Buffers(LawTimestamps, event_size, MaxLawLen) :
       \E C \in Buffers(LawTimestamps, event_size, MaxLawLen) :
         LET In(p) == IF p \in {1, 4, 7, 9} THEN A
                      ELSE IF p \in {2, 5, 8, 10} THEN B ELSE C
         IN /\ events_list = [p \in LawPlaces |-> In(p).events_list]
            /\ sorted = [p \in LawPlaces |-> In(p).sorted]
    /\ wire = <<>>
    /\ sent = NoState
    /\ op = Op("init_state", 0, 0, "ok", -1)
    /\ pc = [at |-> "l1", panicked |-> {}]

\* one merge of a tree; a tree whose earlier merge panicked is abandoned
LawMerge(at, nxt, tree, place, rhs) ==
    /\ pc.at = at
    /\ IF tree \in pc.panicked
       THEN /\ pc' = [pc EXCEPT !.at = nxt]
            /\ UNCHANGED <<arguments, call, event_size, events_list, sorted, wire, sent, op>>
       ELSE /\ merge(place, rhs)
            /\ pc' = [at |-> nxt,
                      panicked |-> pc.panicked \cup
                          (IF op'.outcome = "panic" THEN {tree} ELSE {})]

LawLeft1 == LawMerge("l1", "l2", "left", 1, 2)
LawLeft2 == LawMerge("l2", "r1", "left", 1, 3)
LawRight1 == LawMerge("r1", "r2", "right", 5, 6)
LawRight2 == LawMerge("r2", "ab", "right", 4, 5)
LawAB == LawMerge("ab", "ba", "ab", 7, 8)
LawBA == LawMerge("ba", "done", "ba", 10, 9)

LawNext ==
    \/ LawLeft1
    \/ LawLeft2
    \/ LawRight1
    \/ LawRight2
    \/ LawAB
    \/ LawBA

SpecLaw == LawInit /\ [][LawNext]_vars

\* get_event_level applied to a drawn state at place 1
LevelInit ==
    /\ arguments \in {Columns(n) : n \in LevelArgCounts}
    /\ event_size = try_create(Len(arguments))
    /\ call = NoCall
    /\ \E b \in Buffers(LevelTimestamps, event_size, MaxLevelLen) :
         /\ events_list = [p \in {1} |-> b.events_list]
         /\ sorted = [p \in {1} |-> b.sorted]
    /\ wire = <<>>
    /\ sent = NoState
    /\ op = Op("init_state", 0, 0, "ok", -1)
    /\ pc = [at |-> "run", panicked |-> {}]

LevelNext ==
    /\ op.name = "init_state"
    /\ get_event_level(1)
    /\ UNCHANGED pc

SpecLevel == LevelInit /\ [][LevelNext]_vars

\* accumulate and accumulate_keys applied once to drawn group states.  A
\* row is its timestamp and the set of its true indicator columns, drawn
\* among the first and the last column
AccRows(n) == [timestamp : AccTimestamps, fired : SUBSET {1, n}]

\* the states of the groups before the call: empty, or holding one event
PreBuffers == {<<>>, <<<<window + 1, 1>>>>}

AccInit ==
    /\ arguments \in {Columns(n) : n \in AccArgCounts}
    /\ event_size = try_create(Len(arguments))
    /\ call = NoCall
    /\ events_list \in [Places -> PreBuffers]
    /\ sorted = [p \in Places |-> TRUE]
    /\ wire = <<>>
    /\ sent = NoState
    /\ op = Op("init_state", 0, 0, "ok", -1)
    /\ pc = [at |-> "run", panicked |-> {}]

AccAccumulate ==
    /\ op.name = "init_state"
    /\ \E p \in Places, arrays \in BoundedSeq(AccRows(event_size), MaxRows) :
         accumulate(p, arrays)
    /\ UNCHANGED pc

\* the framework hands one handle per row; handle + offset is a place
AccAccumulateKeys ==
    /\ op.name = "init_state"
    /\ \E arrays \in BoundedSeq(AccRows(event_size), MaxRows), offset \in Offsets :
       \E places \in [1..Len(arrays) -> {p - offset : p \in Places}] :
         accumulate_keys(places, offset, arrays)
    /\ UNCHANGED pc

AccNext ==
    \/ AccAccumulate
    \/ AccAccumulateKeys

SpecAcc == AccInit /\ [][AccNext]_vars

\* the constructor applied to a drawn argument list
CreateInit ==
    /\ arguments \in BoundedSeq(DataTypes, MaxArgs)
    /\ event_size = 0
    /\ call = NoCall
    /\ events_list = [p \in Places |-> state_new.events_list]
    /\ sorted = [p \in Places |-> state_new.sorted]
    /\ wire = <<>>
    /\ sent = NoState
    /\ op = Op("start", 0, 0, "ok", -1)
    /\ pc = [at |-> "run", panicked |-> {}]

CreateNext ==
    /\ op.name = "start"
    /\ LET c == try_create_aggregate_WindowFunnel_function(arguments)
       IN /\ event_size' = c.event_size
          /\ op' = Op("try_create", 0, 0, IF c.ok THEN "ok" ELSE "err", -1)
    /\ UNCHANGED <<arguments, call, events_list, sorted, wire, sent, pc>>

SpecCreate == CreateInit /\ [][CreateNext]_vars

\* a serialized state cut short on its way: serialize(2), the bytes lose
\* their end, deserialize(1).  Place 2 holds a drawn state, place 1 a drawn
\* destination: new(), or a state of two events out of order
TruncDest ==
    {state_new, [events_list |-> <<<<window + 1, 1>>, <<0, 1>>>>, sorted |-> FALSE]}

TruncInit ==
    /\ arguments \in {Columns(n) : n \in ArgCounts}
    /\ event_size = try_create(Len(arguments))
    /\ call = NoCall
    /\ \E d \in TruncDest, b \in Buffers(Timestamps, event_size, MaxLen) :
         /\ events_list = [p \in Places |-> IF p = 1 THEN d.events_list
                                           ELSE b.events_list]
         /\ sorted = [p \in Places |-> IF p = 1 THEN d.sorted ELSE b.sorted]
    /\ wire = <<>>
    /\ sent = NoState
    /\ op = Op("init_state", 0, 0, "ok", -1)
    /\ pc = [at |-> "run", panicked |-> {}]

TruncSerialize ==
    /\ op.name = "init_state"
    /\ serialize(2)
    /\ UNCHANGED pc

\* the byte stream ends early: only a proper prefix arrives
TruncTruncate ==
    /\ op.name = "serialize"
    /\ \E n \in 0..(Len(wire) - 1) : wire' = SubSeq(wire, 1, n)
    /\ op' = Op("truncate", 0, 0, "ok", -1)
    /\ UNCHANGED <<arguments, call, event_size, events_list, sorted, sent, pc>>

TruncDeserialize ==
    /\ op.name = "truncate"
    /\ deserialize(1)
    /\ UNCHANGED pc

TruncNext ==
    \/ TruncSerialize
    \/ TruncTruncate
    \/ TruncDeserialize

SpecTrunc == TruncInit /\ [][TruncNext]_vars

\* ----------------------------------------------------------------- claims
\* the multiset of the events of a sequence
EventBag(es) ==
    [e \in {es[i] : i \in DOMAIN es} |-> Cardinality({i \in DOMAIN es : es[i] = e})]

\* the level get_event_level returns for a state
LevelOf(es, flag, n) ==
    get_event_level_of([events_list |-> es, sorted |-> flag], n).ret

\* C1: every merge completes and leaves self holding exactly the multiset
\* union of the events self and other held before the call.
C1_MergeIsBagUnion ==
    [][op'.name = "merge" =>
         /\ op'.outcome = "ok"
         /\ EventBag(events_list'[op'.dst]) =
              EventBag(events_list[op'.dst]) (+) EventBag(events_list[op'.src])]_vars

\* C2: merge is commutative and associative: both tree shapes over A, B, C
\* and both orders over A, B complete with identical event multisets and
\* identical resolved levels.
C2_MergeOrderIndependent ==
    pc.at = "done" =>
        /\ pc.panicked = {}
        /\ EventBag(events_list[1]) = EventBag(events_list[4])
        /\ LevelOf(events_list[1], sorted[1], event_size)
             = LevelOf(events_list[4], sorted[4], event_size)
        /\ EventBag(events_list[7]) = EventBag(events_list[10])
        /\ LevelOf(events_list[7], sorted[7], event_size)
             = LevelOf(events_list[10], sorted[10], event_size)

\* C3: merging a non-empty other into an empty self completes and leaves
\* self with exactly other's events and other's sorted flag.
C3_MergeIntoEmpty ==
    [][(/\ op'.name = "merge"
        /\ events_list[op'.dst] = <<>>
        /\ events_list[op'.src] # <<>>) =>
         /\ op'.outcome = "ok"
         /\ EventBag(events_list'[op'.dst]) = EventBag(events_list[op'.src])
         /\ sorted'[op'.dst] = sorted[op'.src]]_vars

\* C4: merging an empty other into S is a no-op: S's event sequence, sorted
\* flag and resolved level are unchanged.
C4_MergeEmptyIsNoop ==
    [][(op'.name = "merge" /\ events_list[op'.src] = <<>>) =>
         /\ op'.outcome = "ok"
         /\ events_list'[op'.dst] = events_list[op'.dst]
         /\ sorted'[op'.dst] = sorted[op'.dst]
         /\ LevelOf(events_list'[op'.dst], sorted'[op'.dst], event_size')
              = LevelOf(events_list[op'.dst], sorted[op'.dst], event_size)]_vars

\* C4 witness: an empty state was merged into a non-empty, unsorted one
C4_Witness ==
    /\ op.name = "merge"
    /\ op.outcome = "ok"
    /\ events_list[op.src] = <<>>
    /\ Len(events_list[op.dst]) >= 2
    /\ ~IsSorted(events_list[op.dst])

\* C5: the sorted flag of every state, and the flag serialize wrote, is true
\* only over an events_list in ascending (timestamp, event) order.
C5_SortedFlagIsSound ==
    /\ \A p \in DOMAIN sorted : sorted[p] => IsSorted(events_list[p])
    /\ sent.sorted => IsSorted(sent.events_list)

\* C6: deserialize of the bytes serialize wrote for S succeeds and yields
\* exactly S's event sequence and S's sorted flag.
C6_RoundTrip ==
    [][op'.name = "deserialize" =>
         /\ op'.outcome = "ok"
         /\ events_list'[op'.dst] = sent.events_list
         /\ sorted'[op'.dst] = sent.sorted
         /\ wire' = <<>>]_vars

\* C6 witness: an unsorted state of two events with a two-byte timestamp
\* went over the wire into another place
C6_Witness ==
    /\ op.name = "deserialize"
    /\ op.outcome = "ok"
    /\ Len(events_list[op.dst]) >= 2
    /\ ~sorted[op.dst]
    /\ \E i \in DOMAIN events_list[op.dst] : events_list[op.dst][i][1] >= 256

\* the anchor pass of the level resolver over events in ascending order:
\* anchor[s] = -1 while stage s is unset
RECURSIVE AnchorPass(_, _, _)
AnchorPass(es, anchor, w) ==
    IF es = <<>> THEN anchor
    ELSE LET t == Head(es)[1]
             s == Head(es)[2]
         IN IF s = 1 /\ anchor[1] = -1
            THEN AnchorPass(Tail(es), [anchor EXCEPT ![1] = t], w)
            ELSE IF /\ s > 1
                    /\ s \in DOMAIN anchor
                    /\ anchor[s - 1] # -1
                    /\ anchor[s] = -1
                    /\ t - anchor[s - 1] <= w
            THEN AnchorPass(Tail(es), [anchor EXCEPT ![s] = t], w)
            ELSE AnchorPass(Tail(es), anchor, w)

\* the largest s with anchor[1..s] all set, 0 if anchor[1] is unset
AnchorLevel(es, n, w) ==
    LET anchor == AnchorPass(sort_by(es), [s \in 1..n |-> -1], w)
        full == {s \in 0..n : \A r \in 1..s : anchor[r] # -1}
    IN CHOOSE s \in full : \A r \in full : r <= s

\* C7: for event_size >= 2 get_event_level returns the level of the anchor
\* pass over the events in ascending order with the window of the function.
C7_LevelIsAnchorLevel ==
    (op.name = "get_event_level" /\ event_size >= 2) =>
        /\ op.outcome = "ok"
        /\ op.ret = AnchorLevel(events_list[op.dst], event_size, window)

\* C8: the level get_event_level returns lies in 0..event_size.
C8_LevelWithinSteps ==
    op.name = "get_event_level" => op.ret \in 0..event_size

\* C9: merge_result returns the resolved level as a value; it never aborts.
C9_MergeResultReturns ==
    op.name = "merge_result" => (op.outcome = "ok" /\ op.ret \in 0..event_size)

\* C10: add never decreases the level get_event_level resolves for the state.
C10_AddIsMonotone ==
    [][op'.name = "add" =>
         LevelOf(events_list'[op'.dst], sorted'[op'.dst], event_size')
           >= LevelOf(events_list[op'.dst], sorted[op'.dst], event_size)]_vars

\* C10 witness: an event was added to a non-empty state of a funnel with
\* two steps
C10_Witness ==
    /\ op.name = "add"
    /\ event_size >= 2
    /\ Len(events_list[op.dst]) >= 2

\* C11: get_event_level returns 0 for an empty state whatever event_size is,
\* and 1 for every non-empty state when event_size = 1, whatever the
\* timestamps are.
C11_EmptyAndSingleStep ==
    op.name = "get_event_level" =>
        /\ op.outcome = "ok"
        /\ events_list[op.dst] = <<>> => op.ret = 0
        /\ (event_size = 1 /\ events_list[op.dst] # <<>>) => op.ret = 1

\* C11 witness: a single-step funnel resolved a state whose events lie
\* more than the window apart
C11_Witness ==
    /\ op.name = "get_event_level"
    /\ event_size = 1
    /\ Len(events_list[op.dst]) >= 2
    /\ \E i, j \in DOMAIN events_list[op.dst] :
         events_list[op.dst][j][1] - events_list[op.dst][i][1] > window
    /\ op.ret = 1

\* the k-th smallest element of a finite set of numbers
Nth(S, k) == CHOOSE s \in S : Cardinality({x \in S : x < s}) = k - 1

\* the events one row stands for: none for a null timestamp, else one
\* (timestamp, i) for each stage i of 1..n whose indicator is true, ascending
RowEvents(row, n) ==
    IF row.timestamp = NullTimestamp THEN <<>>
    ELSE LET S == row.fired \cap (1..n)
         IN [k \in 1..Cardinality(S) |-> <<row.timestamp, Nth(S, k)>>]

\* the events a batch stands for, in row order
RECURSIVE BatchEvents(_, _)
BatchEvents(rows, n) ==
    IF rows = <<>> THEN <<>>
    ELSE RowEvents(Head(rows), n) \o BatchEvents(Tail(rows), n)

\* C12: accumulate appends to the group's buffer exactly the events
\* (timestamp_r, i) of the rows with a non-null timestamp and the stages i
\* in 1..event_size whose indicator is true, in row order then stage order,
\* and keeps the events already there.
C12_AccumulateAppendsBatch ==
    [][op'.name = "accumulate" =>
         events_list'[op'.dst] =
             events_list[op'.dst] \o BatchEvents(call'.arrays, event_size)]_vars

\* C13: every event accumulate or accumulate_keys stores has a stage in
\* 1..event_size that is the number of an indicator column true on a row
\* with the event's timestamp, for every event_size try_create accepts.
C13_StagesWithinSteps ==
    [][op'.name \in {"accumulate", "accumulate_keys"} =>
         \A p \in DOMAIN events_list :
           \A k \in (Len(events_list[p]) + 1)..Len(events_list'[p]) :
             LET e == events_list'[p][k]
             IN /\ e[2] \in 1..event_size
                /\ \E r \in DOMAIN call'.arrays :
                     /\ call'.arrays[r].timestamp = e[1]
                     /\ e[2] \in call'.arrays[r].fired]_vars

\* the rows of an accumulate_keys call whose handle addresses place p
OwnRows(c, p) ==
    LET idx == {r \in 1..Len(c.arrays) : c.places[r] + c.offset = p}
    IN [k \in 1..Cardinality(idx) |-> c.arrays[Nth(idx, k)]]

\* C20: accumulate_keys changes, for each row, only the state behind that
\* row's handle at the offset: every group ends as accumulate over its own
\* rows would leave it, and a group with no row of a non-null timestamp and
\* a true indicator keeps its event sequence and its flag.
C20_KeyedTouchesOwnGroup ==
    [][op'.name = "accumulate_keys" =>
         \A p \in DOMAIN events_list :
           LET own == OwnRows(call', p)
               after == accumulate_rows(State(p), own, event_size)
           IN /\ events_list'[p] = after.events_list
              /\ sorted'[p] = after.sorted
              /\ (\A r \in DOMAIN own :
                      \/ own[r].timestamp = NullTimestamp
                      \/ own[r].fired \cap (1..event_size) = {})
                   => (events_list'[p] = events_list[p] /\ sorted'[p] = sorted[p])]_vars

\* C20 witness: two rows with events went to two different groups through
\* a non-zero offset
C20_Witness ==
    /\ op.name = "accumulate_keys"
    /\ call.offset = 1
    /\ Len(call.arrays) = 2
    /\ call.places[1] # call.places[2]
    /\ \A r \in 1..2 : /\ call.arrays[r].timestamp # NullTimestamp
                       /\ call.arrays[r].fired # {}
    /\ \A p \in Places : events_list[p] # <<>>

C15_TruncatedLeavesDestination ==
    [][(op.name = "truncate" /\ op'.name = "deserialize") =>
         /\ op'.outcome = "err"
         /\ events_list'[op'.dst] = events_list[op'.dst]
         /\ sorted'[op'.dst] = sorted[op'.dst]]_vars

\* C16: merge_result and get_event_level leave the group's buffer as it was:
\* the event sequence and the sorted flag after the call equal those before.
C16_ExtractionLeavesBuffer ==
    [][op'.name \in {"merge_result", "get_event_level"} =>
         /\ events_list'[op'.dst] = events_list[op'.dst]
         /\ sorted'[op'.dst] = sorted[op'.dst]]_vars

\* C16 (amended): merge_result and get_event_level leave the multiset of
\* events and the sorted flag as they were; the sequence is untouched when
\* the flag is true, and when the flag is false it is left in ascending
\* order (get_event_level returns before sorting, sequence untouched, when
\* the buffer is empty or there is one step).
C16_ExtractionKeepsEvents ==
    [][op'.name \in {"merge_result", "get_event_level"} =>
         LET d == op'.dst
             early == /\ op'.name = "get_event_level"
                      /\ (events_list[d] = <<>> \/ event_size = 1)
         IN /\ sorted'[d] = sorted[d]
            /\ EventBag(events_list'[d]) = EventBag(events_list[d])
            /\ (sorted[d] \/ early) => events_list'[d] = events_list[d]
            /\ (~sorted[d] /\ ~early) => IsSorted(events_list'[d])]_vars

C16_Witness ==
    /\ op.name = "get_event_level"
    /\ event_size >= 2
    /\ ~sorted[op.dst]
    /\ Len(events_list[op.dst]) >= 2
    /\ IsSorted(events_list[op.dst])

C18_SortOrdersWhenUnsorted ==
    [][op'.name = "sort" =>
         LET d == op'.dst
         IN /\ sorted[d] => events_list'[d] = events_list[d]
            /\ ~sorted[d] => /\ IsSorted(events_list'[d])
                             /\ EventBag(events_list'[d]) = EventBag(events_list[d])]_vars

C18_Witness ==
    /\ op.name = "sort"
    /\ ~sorted[op.dst]
    /\ Len(events_list[op.dst]) >= 2
    /\ events_list[op.dst][1] # events_list[op.dst][2]
    /\ IsSorted(events_list[op.dst])

\* C19: once sort has sorted a buffer the order is recorded, and a later
\* sort, merge or merge_result on it runs no further full sort.
C19_SortedOnce ==
    op.name = "sort" => ~sort_runs(State(op.dst))

====
